---- MODULE Spec2Model ----
(***************************************************************************)
(* Model of scripts/process_releases.py: the GL.iNet MT6000 firmware       *)
(* release processor.  One run of main() fetches the vendor catalog, sorts *)
(* it by compile time, skips the entries whose checksum is in the release  *)
(* history, and for every other entry downloads the firmware, invokes      *)
(* "gh release create" and appends the checksum to the history file.       *)
(* The history file, the local artifact files and the releases on the      *)
(* platform outlive a run; everything else is per-process state.           *)
(***************************************************************************)
EXTENDS Integers, Sequences, FiniteSets, TLC

(* ------------------------------ bounds --------------------------------- *)

\* Longest catalog ("info" list) the vendor API returns.
MaxEntries == 2

\* Number of runs of the script that share one history file.
MaxRuns == 2

\* Longest list a history file holds when load_release_history is applied
\* on its own.
MaxLen == 3

(* ------------------------------ inputs --------------------------------- *)

Sha == {"a", "b"}

\* Stage names as the catalog spells them: one RELEASE build in lower case,
\* one pre-release channel.
Stage == {"release", "SNAPSHOT"}

\* A compile_time as the JSON carries it: an integer or a string, in both
\* cases written with decimal digits.
CompileTime ==
    { [type |-> "int", digits |-> <<1>>],
      [type |-> "int", digits |-> <<2>>],
      [type |-> "str", digits |-> <<2>>],
      [type |-> "str", digits |-> <<1, 0>>] }

\* A firmware entry, reduced to its first download variant.  The artifact
\* name follows the content: the same checksum is the same file.
Firmware ==
    { [version |-> "4.8", stage |-> st, sha256 |-> s, name |-> s,
       compile_time |-> ct] : st \in Stage, s \in Sha, ct \in CompileTime }

RECURSIVE SeqsUpTo(_, _)
SeqsUpTo(S, n) ==
    IF n = 0 THEN { <<>> }
    ELSE LET shorter == SeqsUpTo(S, n - 1)
         IN  shorter \cup { Append(q, e) : q \in { p \in shorter : Len(p) = n - 1 }, e \in S }

Catalogs == SeqsUpTo(Firmware, MaxEntries)

Range(s) == { s[k] : k \in 1..Len(s) }

(* -------------------------- pure functions ----------------------------- *)

\* int(timestamp): the number a run of decimal digits denotes.
RECURSIVE IntOf(_)
IntOf(digits) ==
    IF Len(digits) = 0 THEN 0
    ELSE IntOf(SubSeq(digits, 1, Len(digits) - 1)) * 10 + digits[Len(digits)]

\* Python's < on two str values: lexicographic, character by character.
RECURSIVE StrLess(_, _)
StrLess(x, y) ==
    IF Len(y) = 0 THEN FALSE
    ELSE IF Len(x) = 0 THEN TRUE
    ELSE IF x[1] # y[1] THEN x[1] < y[1]
    ELSE StrLess(Tail(x), Tail(y))

\* Python's < on two sort keys of the same type.
KeyLess(x, y) ==
    IF x.type = "int" THEN IntOf(x.digits) < IntOf(y.digits)
    ELSE StrLess(x.digits, y.digits)

SortKey(firmware) == firmware.compile_time

\* sorted() compares keys with <, which raises TypeError between int and str.
SortRaises(firmware_list) ==
    \E j, k \in 1..Len(firmware_list) :
        SortKey(firmware_list[j]).type # SortKey(firmware_list[k]).type

\* Position of e in an already sorted list: after every element not greater
\* than it (sorted() is stable).
RECURSIVE InsertSorted(_, _)
InsertSorted(e, s) ==
    IF Len(s) = 0 THEN <<e>>
    ELSE IF KeyLess(SortKey(e), SortKey(s[Len(s)]))
         THEN Append(InsertSorted(e, SubSeq(s, 1, Len(s) - 1)), s[Len(s)])
         ELSE Append(s, e)

RECURSIVE Sorted(_)
Sorted(firmware_list) ==
    IF Len(firmware_list) = 0 THEN <<>>
    ELSE InsertSorted(firmware_list[Len(firmware_list)],
                      Sorted(SubSeq(firmware_list, 1, Len(firmware_list) - 1)))

\* str.upper() on the stage names of the catalog.
Upper(stage) ==
    CASE stage = "RELEASE"  -> "RELEASE"
      [] stage = "release"  -> "RELEASE"
      [] stage = "Release"  -> "RELEASE"
      [] stage = "snapshot" -> "SNAPSHOT"
      [] stage = "SNAPSHOT" -> "SNAPSHOT"
      [] stage = "testing"  -> "TESTING"
      [] stage = "TESTING"  -> "TESTING"

\* str.lower() on the stage names of the catalog.
Lower(stage) ==
    CASE stage = "RELEASE"  -> "release"
      [] stage = "release"  -> "release"
      [] stage = "Release"  -> "release"
      [] stage = "snapshot" -> "snapshot"
      [] stage = "SNAPSHOT" -> "snapshot"
      [] stage = "testing"  -> "testing"
      [] stage = "TESTING"  -> "testing"

\* The characters "0".."9", by digit.
DigitChar(d) == <<"0", "1", "2", "3", "4", "5", "6", "7", "8", "9">>[d + 1]

\* f"{compile_time}": the text of an int or of a str, character by character.
Str(compile_time) ==
    [k \in 1..Len(compile_time.digits) |-> DigitChar(compile_time.digits[k])]

\* The stage compared as it is spelled: only "RELEASE" gets the short tag.
GenerateReleaseTagCaseSensitive(version, stage, compile_time) ==
    IF stage = "RELEASE" THEN <<"v", version>>
    ELSE <<"v", version, "-", Lower(stage), "-">> \o Str(compile_time)

\* generate_release_tag: the tag as the sequence of the pieces of text the
\* f-string puts together.
GenerateReleaseTag(version, stage, compile_time) ==
    IF Upper(stage) = "RELEASE" THEN <<"v", version>>
    ELSE <<"v", version, "-", Lower(stage), "-">> \o Str(compile_time)

\* create_github_release: the tag of an entry, from its version, its stage
\* in upper case and the compile time of its first download variant.
TagOf(firmware) ==
    GenerateReleaseTag(firmware.version, Upper(firmware.stage), firmware.compile_time)

\* The membership test left out: nothing is ever taken as already released.
InHistoryNever(sha256, h) == FALSE

\* "sha256 in history": list membership by string equality.
InHistory(sha256, h) == \E k \in 1..Len(h) : h[k] = sha256

\* The "--latest" element of the gh command line.
LatestFlag(stage) == TRUE

\* The result of create_github_release ignored: the history always grows.
ShouldAppendAlways(result) == TRUE

\* "if create_github_release(...)": the history grows on a True result only.
ShouldAppend(result) == result

\* The result of download_firmware ignored: the release goes on regardless.
DownloadFailedIgnored(ok) == FALSE

\* "if not download_firmware(url, filename): return False".
DownloadFailed(ok) == ~ok

\* The OSError of a save logged and swallowed: the loop goes on.
SaveSwallows(error) == FALSE

\* save_release_history: "except OSError ... raise" hands the error on.
SaveRaises(error) == error

\* The increment left out.
NextCountStuck(n) == n

\* "releases_created += 1".
NextCount(n) == n + 1

\* load_release_history applied to the content of the history file.
LoadHistory(f) == IF f.state = "valid" THEN f.data ELSE <<>>

\* A failed request taken for an answer: an empty "info" list comes back.
FetchAlwaysAnswers(outcome) == [none |-> FALSE, keys |-> {"info"}]

\* load_release_history: reading a file that is not UTF-8 raises
\* UnicodeDecodeError, a ValueError the except clause does not name.
LoadRaises(f) == f.state = "undecodable"

\* fetch_firmware_data: what the API request yields, as main sees it.
FetchFirmwareData(outcome) ==
    CASE outcome = "ok"        -> [none |-> FALSE, keys |-> {"info"}]
      [] outcome = "transport" -> [none |-> TRUE,  keys |-> {}]
      [] outcome = "badjson"   -> [none |-> TRUE,  keys |-> {}]
      [] outcome = "empty"     -> [none |-> FALSE, keys |-> {}]
      [] outcome = "noinfo"    -> [none |-> FALSE, keys |-> {"code"}]

\* "not data": None and the empty dict are falsy.
Falsy(data) == data.none \/ data.keys = {}

(* ------------------------------- state --------------------------------- *)

VARIABLES
    catalog,           \* the "info" list the vendor API serves
    runs,              \* runs of the script started so far
    repo,              \* GITHUB_REPOSITORY is set in this run's environment
    pc,                \* position of the running process, "idle" when none
    sorted_firmware,   \* process_firmware_releases: sorted_firmware
    history,           \* process_firmware_releases: history
    i,                 \* index in sorted_firmware of the entry being handled
    releases_created,  \* process_firmware_releases: releases_created
    exit,              \* how the last process ended and its exit status
    file,              \* content of release_history.json
    files,             \* names of the artifact files on local storage
    loaded,            \* the history as load_release_history returned it
    outcome,           \* per entry of this run: pending/SKIPPED/PUBLISHED/FAILED
    requested,         \* entries of this run a download request was made for
    invoked,           \* entries of this run the gh command was invoked for
    reported,          \* checksums create_github_release returned True for, this run
    lastCall,          \* the latest invocation of the gh command, if any
    released,          \* entries the platform holds a release for
    republished,       \* checksums released again after a release of theirs
    latest,            \* the release carrying the platform's latest marker
    durable,           \* checksums whose publish and save both completed
    fetch,             \* whether this run's request to the vendor API was served
    downloaded,        \* entries of this run download_firmware returned True for
    call,              \* a function applied on its own: its name and argument
    ret                \* the result of that application, once made

vars == << catalog, runs, repo, pc, sorted_firmware, history, i,
           releases_created, exit, file, files, loaded, outcome, requested,
           invoked, reported, lastCall, released, republished, latest, durable,
           fetch, downloaded, call, ret >>

process == << sorted_firmware, history, i, releases_created, loaded, outcome >>
platform == << lastCall, released, republished, latest >>
fixed == << catalog, runs, repo, call, ret >>

Running == [how |-> "running", cause |-> "none", status |-> <<>>]
Returned(n) == [how |-> "return", cause |-> "none", status |-> <<n>>]
\* An uncaught exception ends the interpreter with status 1.
Raised(cause) == [how |-> "exception", cause |-> cause, status |-> <<1>>]
Killed == [how |-> "killed", cause |-> "kill", status |-> <<>>]

Cur == sorted_firmware[i]
InLoop == pc \in {"loop", "release", "save_open", "save_write"}

\* No process has run yet: no history file, no artifact, no release.
Quiet ==
    /\ runs = 0
    /\ repo = TRUE
    /\ pc = "idle"
    /\ sorted_firmware = <<>>
    /\ history = <<>>
    /\ i = 0
    /\ releases_created = 0
    /\ exit = Running
    /\ file = [state |-> "missing", data |-> <<>>]
    /\ files = {}
    /\ loaded = <<>>
    /\ outcome = <<>>
    /\ requested = {}
    /\ invoked = {}
    /\ reported = <<>>
    /\ lastCall = <<>>
    /\ released = {}
    /\ republished = {}
    /\ latest = <<>>
    /\ durable = {}
    /\ fetch = "none"
    /\ downloaded = {}
    /\ ret = <<>>

Init ==
    /\ catalog \in Catalogs
    /\ call = <<>>
    /\ Quiet

(* ------------------------------ actions -------------------------------- *)

\* The script is started: a new process with its own environment.
StartRun ==
    /\ pc = "idle"
    /\ runs < MaxRuns
    /\ runs' = runs + 1
    /\ repo' \in BOOLEAN
    /\ pc' = "fetch"
    /\ sorted_firmware' = <<>>
    /\ history' = <<>>
    /\ i' = 0
    /\ releases_created' = 0
    /\ exit' = Running
    /\ loaded' = <<>>
    /\ outcome' = <<>>
    /\ requested' = {}
    /\ invoked' = {}
    /\ reported' = <<>>
    /\ fetch' = "none"
    /\ downloaded' = {}
    /\ UNCHANGED << catalog, call, ret, file, files, platform, durable >>

\* main: fetch_firmware_data and the two checks on its result.
Fetch ==
    /\ pc = "fetch"
    /\ \E o \in {"ok", "transport", "badjson", "empty", "noinfo"} :
        LET data == FetchFirmwareData(o) IN
        /\ fetch' = IF o = "ok" THEN "ok" ELSE "failed"
        /\ IF Falsy(data) \/ "info" \notin data.keys
           THEN /\ pc' = "idle"
                /\ exit' = [how |-> "return", cause |-> "fetch", status |-> <<1>>]
           ELSE /\ pc' = "process"
                /\ exit' = exit
    /\ UNCHANGED << fixed, process, file, files, requested, invoked, reported,
                    platform, durable, downloaded >>

\* process_firmware_releases up to the loop: sorted() and load_release_history.
Process ==
    /\ pc = "process"
    /\ IF SortRaises(catalog)
       THEN /\ pc' = "idle"
            /\ exit' = Raised("sort")
            /\ UNCHANGED process
       ELSE /\ pc' = "loop"
            /\ sorted_firmware' = Sorted(catalog)
            /\ history' = LoadHistory(file)
            /\ loaded' = LoadHistory(file)
            /\ i' = 1
            /\ releases_created' = 0
            /\ outcome' = [k \in 1..Len(catalog) |-> "pending"]
            /\ exit' = exit
    /\ UNCHANGED << fixed, file, files, requested, invoked, reported, platform,
                    durable, fetch, downloaded >>

\* Loop body, "if sha256 in history: continue".
Skip ==
    /\ pc = "loop"
    /\ i <= Len(sorted_firmware)
    /\ InHistory(Cur.sha256, history)
    /\ outcome' = [outcome EXCEPT ![i] = "SKIPPED"]
    /\ i' = i + 1
    /\ UNCHANGED << fixed, pc, sorted_firmware, history, releases_created,
                    exit, file, files, loaded, requested, invoked, reported,
                    platform, durable, fetch, downloaded >>

\* create_github_release up to and including download_firmware, and
\* "if not download_firmware(url, filename): return False".
Download ==
    /\ pc = "loop"
    /\ i <= Len(sorted_firmware)
    /\ ~InHistory(Cur.sha256, history)
    /\ requested' = requested \cup {i}
    /\ \E o \in {"ok", "http_error", "stream_error", "write_error"} :
        LET ok == (o = "ok") IN
        \* http_error: RequestException before the file is opened; every
        \* other outcome has opened the file and written to it
        /\ files' = IF o = "http_error" THEN files ELSE files \cup {Cur.name}
        /\ downloaded' = IF ok THEN downloaded \cup {i} ELSE downloaded
        /\ IF o = "write_error"
           THEN \* OSError from f.write: not a RequestException, not caught
                /\ pc' = "idle"
                /\ exit' = Raised("download_write")
                /\ UNCHANGED << i, outcome >>
           ELSE IF DownloadFailed(ok)
           THEN \* download_firmware returned False (a RequestException)
                /\ outcome' = [outcome EXCEPT ![i] = "FAILED"]
                /\ i' = i + 1
                /\ UNCHANGED << pc, exit >>
           ELSE /\ pc' = "release"
                /\ UNCHANGED << i, outcome, exit >>
    /\ UNCHANGED << fixed, sorted_firmware, history, releases_created, file,
                    loaded, invoked, reported, platform, durable, fetch >>

\* create_github_release after the download, with GITHUB_REPOSITORY unset.
ReleaseNoRepo ==
    /\ pc = "release"
    /\ ~repo
    /\ pc' = "loop"
    /\ outcome' = [outcome EXCEPT ![i] = "FAILED"]
    /\ i' = i + 1
    /\ UNCHANGED << fixed, sorted_firmware, history, releases_created, exit,
                    file, files, loaded, requested, invoked, reported,
                    platform, durable, fetch, downloaded >>

\* create_github_release after the download: subprocess.run of the gh
\* command, and "history.append(sha256)" on a True result.
Release ==
    /\ pc = "release"
    /\ repo
    /\ invoked' = invoked \cup {i}
    /\ lastCall' = << [sha256 |-> Cur.sha256, stage |-> Cur.stage,
                       tag |-> TagOf(Cur),
                       latest |-> LatestFlag(Upper(Cur.stage))] >>
    /\ \E o \in {"ok", "nonzero", "missing"} :
        LET result == (o = "ok") IN
        /\ IF o = "ok"
           THEN /\ released' = released \cup {Cur}
                /\ republished' =
                      IF \E r \in released : r.sha256 = Cur.sha256
                      THEN republished \cup {Cur.sha256} ELSE republished
                /\ latest' = IF LatestFlag(Upper(Cur.stage)) THEN <<Cur>> ELSE latest
           ELSE UNCHANGED << released, republished, latest >>
        /\ IF o = "missing"
           THEN \* FileNotFoundError: not a CalledProcessError, not caught
                /\ pc' = "idle"
                /\ exit' = Raised("gh_missing")
                /\ UNCHANGED << files, history, reported, outcome, i >>
           ELSE /\ files' = files \ {Cur.name}
                /\ reported' = IF result THEN Append(reported, Cur.sha256) ELSE reported
                /\ exit' = exit
                /\ IF ShouldAppend(result)
                   THEN /\ history' = Append(history, Cur.sha256)
                        /\ pc' = "save_open"
                        /\ UNCHANGED << outcome, i >>
                   ELSE /\ history' = history
                        /\ pc' = "loop"
                        /\ outcome' = [outcome EXCEPT ![i] = "FAILED"]
                        /\ i' = i + 1
    /\ UNCHANGED << fixed, sorted_firmware, releases_created, file, loaded,
                    requested, durable, fetch, downloaded >>

\* save_release_history: HISTORY_FILE.open("w") truncates the file.
SaveOpen ==
    /\ pc = "save_open"
    /\ \E o \in {"ok", "error"} :
        IF o = "ok"
        THEN /\ file' = [state |-> "truncated", data |-> <<>>]
             /\ pc' = "save_write"
             /\ UNCHANGED << exit, releases_created, outcome, i >>
        ELSE IF SaveRaises(TRUE)
        THEN \* OSError: logged and raised again
             /\ file' = file
             /\ pc' = "idle"
             /\ exit' = Raised("save")
             /\ UNCHANGED << releases_created, outcome, i >>
        ELSE /\ file' = file
             /\ releases_created' = NextCount(releases_created)
             /\ outcome' = [outcome EXCEPT ![i] = "PUBLISHED"]
             /\ i' = i + 1
             /\ pc' = "loop"
             /\ exit' = exit
    /\ UNCHANGED << fixed, sorted_firmware, history, loaded, files, requested,
                    invoked, reported, platform, durable, fetch, downloaded >>

\* save_release_history: json.dump and the close of the file, then
\* "releases_created += 1" and the next iteration.
SaveWrite ==
    /\ pc = "save_write"
    /\ \E o \in {"ok", "error"} :
        IF o = "ok"
        THEN /\ file' = [state |-> "valid", data |-> history]
             /\ durable' = durable \cup {Cur.sha256}
             /\ releases_created' = NextCount(releases_created)
             /\ outcome' = [outcome EXCEPT ![i] = "PUBLISHED"]
             /\ i' = i + 1
             /\ pc' = "loop"
             /\ exit' = exit
        ELSE IF SaveRaises(TRUE)
        THEN \* OSError: logged and raised again, the file left truncated
             /\ pc' = "idle"
             /\ exit' = Raised("save")
             /\ UNCHANGED << file, durable, releases_created, outcome, i >>
        ELSE /\ releases_created' = NextCount(releases_created)
             /\ outcome' = [outcome EXCEPT ![i] = "PUBLISHED"]
             /\ i' = i + 1
             /\ pc' = "loop"
             /\ UNCHANGED << file, durable, exit >>
    /\ UNCHANGED << fixed, sorted_firmware, history, loaded, files, requested,
                    invoked, reported, platform, fetch, downloaded >>

\* The loop is over: process_firmware_releases returns and main returns 0.
Return ==
    /\ pc = "loop"
    /\ i > Len(sorted_firmware)
    /\ pc' = "idle"
    /\ exit' = Returned(0)
    /\ UNCHANGED << fixed, process, file, files, requested, invoked, reported,
                    platform, durable, fetch, downloaded >>

\* The process is killed from outside, wherever it is: its memory is gone.
Kill ==
    /\ pc # "idle"
    /\ pc' = "idle"
    /\ exit' = Killed
    /\ sorted_firmware' = <<>>
    /\ history' = <<>>
    /\ i' = 0
    /\ releases_created' = 0
    /\ loaded' = <<>>
    /\ outcome' = <<>>
    /\ requested' = {}
    /\ invoked' = {}
    /\ reported' = <<>>
    /\ fetch' = "none"
    /\ downloaded' = {}
    /\ UNCHANGED << fixed, file, files, platform, durable >>

Next ==
    \/ StartRun
    \/ Fetch
    \/ Process
    \/ Skip
    \/ Download
    \/ ReleaseNoRepo
    \/ Release
    \/ SaveOpen
    \/ SaveWrite
    \/ Return
    \/ Kill

Spec == Init /\ [][Next]_vars

(* ------------------ checksums that differ in case only ------------------ *)

\* The same SHA-256 written in lower-case and in upper-case hex digits.
ShaSpellings == {"ab", "AB"}

FirmwareSpellings ==
    { [version |-> "4.8", stage |-> st, sha256 |-> s, name |-> "fw.bin",
       compile_time |-> ct] : st \in Stage, s \in ShaSpellings, ct \in CompileTime }

InitCase ==
    /\ catalog \in SeqsUpTo(FirmwareSpellings, MaxEntries)
    /\ call = <<>>
    /\ Quiet

SpecCase == InitCase /\ [][Next]_vars

(* ------------------- functions applied on their own -------------------- *)

\* What a JSON list in the history file may hold.
JsonElems ==
    { [kind |-> "str", text |-> "a"], [kind |-> "str", text |-> "b"],
      [kind |-> "num", text |-> "1"], [kind |-> "null", text |-> "null"] }

\* What load_release_history may find at HISTORY_FILE.
FileContents ==
    { [state |-> st, data |-> <<>>] :
        st \in {"missing", "unreadable", "undecodable", "invalid_json",
                "truncated", "not_list"} }
    \cup { [state |-> "valid", data |-> d] : d \in SeqsUpTo(JsonElems, MaxLen) }

Versions == {"4.8.2", "4.8.4", "4.9"}

TagStages == {"RELEASE", "release", "Release", "snapshot", "SNAPSHOT", "TESTING"}

LoadCalls == { [fn |-> "load_release_history", file |-> f] : f \in FileContents }

TagCalls ==
    { [fn |-> "generate_release_tag", version |-> v, stage |-> st,
       compile_time |-> ct] : v \in Versions, st \in TagStages, ct \in CompileTime }

InitPure ==
    /\ catalog = <<>>
    /\ call \in { <<c>> : c \in LoadCalls \cup TagCalls }
    /\ Quiet

others == << catalog, runs, repo, pc, process, exit, file, files, requested,
             invoked, reported, platform, durable, fetch, downloaded >>

\* load_release_history applied to a file content.
CallLoad ==
    /\ ret = <<>>
    /\ call[1].fn = "load_release_history"
    /\ ret' = << [raised |-> LoadRaises(call[1].file),
                  value |-> IF LoadRaises(call[1].file) THEN <<>>
                            ELSE LoadHistory(call[1].file)] >>
    /\ UNCHANGED << call, others >>

\* generate_release_tag applied to a version, a stage and a compile time.
CallTag ==
    /\ ret = <<>>
    /\ call[1].fn = "generate_release_tag"
    /\ ret' = << GenerateReleaseTag(call[1].version, call[1].stage,
                                    call[1].compile_time) >>
    /\ UNCHANGED << call, others >>

NextPure ==
    \/ CallLoad
    \/ CallTag

SpecPure == InitPure /\ [][NextPure]_vars

(* ------------------------------ claims --------------------------------- *)

Ended == pc = "idle" /\ exit.how # "running"
IsRelease(firmware) == Upper(firmware.stage) = "RELEASE"
Num(firmware) == IntOf(firmware.compile_time.digits)

\* A step that makes a download request or invokes the gh command for the
\* current entry.
Attempts == (requested' \ requested) \cup (invoked' \ invoked) # {}

\* C1 (as amended): whenever a download request is made or the gh command is
\* invoked for an entry, the entry's checksum is not in the history at that
\* moment, whether the history was loaded from the file or grew earlier in
\* the run: an entry already in the history is neither downloaded nor
\* released.
C1_SkipNoInvoke ==
    [][ Attempts => Cur.sha256 \notin Range(history) ]_vars

\* C1 witness: an entry was skipped because an earlier entry of the same run
\* put its checksum in the history.
C1_Witness ==
    \E k \in DOMAIN outcome :
        /\ outcome[k] = "SKIPPED"
        /\ sorted_firmware[k].sha256 \notin Range(loaded)

\* C1 (original): entries in the history are neither downloaded nor released,
\* and so no checksum is ever published twice across the runs that share the
\* history file.
C1_Original ==
    [][ /\ Attempts => Cur.sha256 \notin Range(history)
        /\ republished' = {} ]_vars

\* C2: in every state the history of the run is the loaded history followed
\* by the checksums create_github_release returned True for, in order: a
\* successful publish adds its checksum, a failed or skipped entry adds none.
C2_AppendIffSuccess == history = loaded \o reported

\* C2 witness: one entry of the run was published and another one failed.
C2_Witness ==
    /\ Len(reported) > 0
    /\ \E k \in DOMAIN outcome : outcome[k] = "FAILED"

\* C3: once the loop is back at its head every entry published so far has its
\* checksum in the history file, and a run that has loaded the file sees every
\* checksum whose publish and save completed in this or an earlier run.
C3_Original ==
    /\ pc = "loop" =>
          \A k \in DOMAIN outcome :
              outcome[k] = "PUBLISHED" =>
                  sorted_firmware[k].sha256 \in Range(LoadHistory(file))
    /\ InLoop => durable \subseteq Range(history)

\* C4: the entries the loop has reached are in non-decreasing order of the
\* number their compile_time denotes, be it an integer or a numeric string.
C4_Original ==
    InLoop =>
        \A j, k \in 1..Len(sorted_firmware) :
            (j < k /\ k <= i) => Num(sorted_firmware[j]) <= Num(sorted_firmware[k])

\* C5: every invocation of the gh command (each is the latest one in the
\* state it leads to) marks the release as latest exactly
\* when the entry's stage is RELEASE, letter case ignored.
C5_Original ==
    \A c \in Range(lastCall) : c.latest <=> (Upper(c.stage) = "RELEASE")

\* C6: after a run that returned, if a RELEASE-stage entry has been published,
\* the latest marker is on a published RELEASE-stage release and no published
\* RELEASE-stage release has a greater compile time.
C6_Original ==
    (Ended /\ exit.how = "return" /\ \E r \in released : IsRelease(r)) =>
        /\ Len(latest) = 1
        /\ IsRelease(latest[1])
        /\ latest[1] \in released
        /\ \A r \in released : IsRelease(r) => Num(r) <= Num(latest[1])

\* C7: in a run without GITHUB_REPOSITORY no download request is made (so no
\* artifact file is written), the gh command is not invoked and the history
\* stays as loaded.
C7_Original ==
    (runs > 0 /\ ~repo) =>
        /\ requested = {}
        /\ invoked = {}
        /\ history = loaded

\* C8: a process that ended by itself exits with 1 when the catalog could not
\* be fetched or GITHUB_REPOSITORY is absent, and with 0 on normal completion.
C8_Original ==
    (Ended /\ exit.how # "killed") =>
        /\ (exit.cause = "fetch" \/ ~repo) => exit.status = <<1>>
        /\ (exit.how = "return" /\ exit.cause = "none" /\ repo) => exit.status = <<0>>

\* C9: when create_github_release returns for an entry whose download
\* succeeded, the entry's artifact file is no longer on local storage.
C9_Original ==
    [][ (pc = "release" /\ pc' \in {"loop", "save_open"}) => Cur.name \notin files' ]_vars

\* C10: a process that ended with no other failure than per-entry ones (a
\* download write error, a missing release command) has handled every entry
\* of the catalog: none is left pending.
C10_Original ==
    (Ended /\ exit.cause \in {"none", "download_write", "gh_missing"}) =>
        /\ Len(outcome) = Len(catalog)
        /\ \A k \in DOMAIN outcome : outcome[k] # "pending"

FetchFailed == fetch = "failed"

\* C11: the step in which the catalog request fails (transport error, body
\* that is no JSON, empty answer, no "info" field) ends the run with exit status 1: nothing
\* was sorted or loaded, no download request and no gh invocation was made,
\* and the history file and the local files are as they were before the step.
C11_FetchFailureStopsRun ==
    [][ (pc = "fetch" /\ fetch' = "failed") =>
            /\ pc' = "idle"
            /\ exit'.how = "return" /\ exit'.status = <<1>>
            /\ requested' = {} /\ invoked' = {} /\ downloaded' = {}
            /\ outcome' = <<>> /\ loaded' = <<>> /\ history' = <<>>
            /\ file' = file /\ files' = files
            /\ released' = released /\ lastCall' = lastCall ]_vars

\* C11 witness: a run whose catalog request failed has ended, with the
\* history file an earlier run wrote still in place.
C11_Witness ==
    /\ Ended /\ FetchFailed
    /\ file.state = "valid" /\ Len(file.data) > 0

PublishedIdx == { k \in DOMAIN outcome : outcome[k] = "PUBLISHED" }

\* A run that returned and in which no download, publish or save failed.
CleanRun ==
    /\ Ended /\ exit.how = "return" /\ exit.cause = "none"
    /\ \A k \in DOMAIN outcome : outcome[k] \in {"SKIPPED", "PUBLISHED"}

\* C12: after a run in which everything succeeded the history file holds the
\* loaded history followed by the checksums of the entries the run published,
\* in order of their compile time; and a run that loads a history holding
\* every checksum of the catalog makes no download request, invokes no
\* release command and counts zero new releases.
C12_Original ==
    /\ CleanRun =>
          /\ LoadHistory(file) = loaded \o reported
          /\ \A j, k \in PublishedIdx :
                j < k => Num(sorted_firmware[j]) <= Num(sorted_firmware[k])
    /\ (fetch = "ok" /\ Len(outcome) = Len(catalog)
          /\ \A k \in 1..Len(catalog) : catalog[k].sha256 \in Range(loaded)) =>
          /\ requested = {} /\ invoked = {}
          /\ releases_created = 0

Applied(fn) == Len(call) = 1 /\ call[1].fn = fn /\ Len(ret) = 1

\* C13: load_release_history never raises; it returns the list the file
\* holds when that is a list of strings, and the empty list for a file that
\* is missing, unreadable, undecodable, no JSON, no list, or a list holding
\* something else than strings.
C13_Original ==
    Applied("load_release_history") =>
        /\ ~ret[1].raised
        /\ ret[1].value =
              IF /\ call[1].file.state = "valid"
                 /\ \A e \in Range(call[1].file.data) : e.kind = "str"
              THEN call[1].file.data
              ELSE <<>>

\* C15: generate_release_tag gives "v{version}" for a stage that reads
\* RELEASE in any letter case, and "v{version}-{stage in lower case}-
\* {compile time}" for every other stage.
C15_TagFormat ==
    Applied("generate_release_tag") =>
        LET c == call[1]
            time == IF c.compile_time.digits = <<1>> THEN <<"1">>
                    ELSE IF c.compile_time.digits = <<2>> THEN <<"2">>
                    ELSE <<"1", "0">>
        IN  ret[1] =
              CASE c.stage \in {"RELEASE", "release", "Release"} -> <<"v", c.version>>
                [] c.stage \in {"snapshot", "SNAPSHOT"} ->
                      <<"v", c.version, "-", "snapshot", "-">> \o time
                [] c.stage = "TESTING" ->
                      <<"v", c.version, "-", "testing", "-">> \o time

\* C15 witness: the tag of a lower-case "release" build and the tag of a
\* SNAPSHOT build have been computed.
C15_Witness ==
    /\ Applied("generate_release_tag")
    /\ \/ call[1].stage = "release" /\ ret[1] = <<"v", "4.8.2">>
       \/ call[1].stage = "SNAPSHOT" /\ ret[1] = <<"v", "4.8.4", "-", "snapshot", "-", "1", "0">>

NormalCompletion == Ended /\ exit.how = "return" /\ exit.cause = "none"

\* C14: a failed save of the history ends the process with an uncaught
\* exception (exit status 1), so a run that completes normally has every
\* checksum it published in the history file.
C14_SaveFailureSurfaces ==
    /\ exit.cause = "save" => (exit.how = "exception" /\ exit.status = <<1>>)
    /\ NormalCompletion => Range(reported) \subseteq Range(LoadHistory(file))

\* C14 witness: a run ended by a failed save, with a checksum it published
\* missing from the history file.
C14_Witness ==
    /\ Ended /\ exit.cause = "save"
    /\ \E s \in Range(reported) : s \notin Range(LoadHistory(file))

\* C16: at normal completion the count returned is the number of entries
\* create_github_release reported success for, which is the number of
\* checksums the history grew by and the number of entries marked published;
\* the exit status is 0 whatever the count.
C16_CountIsPublished ==
    NormalCompletion =>
        /\ releases_created = Len(reported)
        /\ releases_created = Len(history) - Len(loaded)
        /\ releases_created = Cardinality(PublishedIdx)
        /\ exit.status = <<0>>

\* C16 witness: a run that completed normally after publishing one entry and
\* failing on another.
C16_Witness ==
    /\ NormalCompletion
    /\ releases_created = 1
    /\ \E k \in DOMAIN outcome : outcome[k] = "FAILED"

\* C18: the gh command is invoked only for entries whose download returned
\* success, downloads are requested before; the entry the loop is about to
\* handle has had no download request yet, and the entry whose download just
\* succeeded has had no invocation yet: one download and one invocation at
\* most per entry and run, in that order.
C18_DownloadThenPublish ==
    /\ invoked \subseteq downloaded
    /\ downloaded \subseteq requested
    /\ pc = "loop" => \A k \in requested : k < i
    /\ pc = "release" => (i \in downloaded /\ \A k \in invoked : k < i)

\* C18 witness: in one run a download failed without an invocation and a
\* later entry was downloaded and handed to the gh command.
C18_Witness ==
    \E j, k \in requested :
        /\ j < k
        /\ j \notin downloaded
        /\ k \in invoked

\* A hex checksum with its letters in lower case.
Casefold(sha256) == IF sha256 = "AB" THEN "ab" ELSE sha256

\* C17: no download request and no gh invocation is made for an entry whose
\* checksum equals one in the history up to letter case.
C17_Original ==
    [][ Attempts =>
          \A h \in Range(history) : Casefold(h) # Casefold(Cur.sha256) ]_vars

\* The submissions to the gh command a state keeps track of: those of this
\* run, the latest one, and those that created a release.
Submitted ==
    { [tag |-> TagOf(sorted_firmware[k]), sha256 |-> sorted_firmware[k].sha256] :
        k \in invoked }
    \cup { [tag |-> r.tag, sha256 |-> r.sha256] : r \in Range(lastCall) }
    \cup { [tag |-> TagOf(r), sha256 |-> r.sha256] : r \in released }

\* C19: two submissions to the gh command under the same tag carry the same
\* checksum.
C19_Original ==
    \A x, y \in Submitted : x.tag = y.tag => x.sha256 = y.sha256

====
